---- MODULE Spec2Model ----
(***************************************************************************)
(* Model of web.py of caslu404/radarlfo: the batch resolution engine that   *)
(* decides, per product identifier (ASIN), who holds the buy-box offer.     *)
(* Strings are sequences of one-character strings, so that lower(), strip() *)
(* split() and the `in` substring test are computed, not assumed.           *)
(***************************************************************************)
EXTENDS Integers, Sequences, FiniteSets, TLC

(***************************************************************************)
(* Program constants (web.py, section CONSTANTES).                          *)
(***************************************************************************)
MAX_WORKERS == 6
SAFEGET_RETRIES_PER_CYCLE == 2
MAX_BLOCKED_CYCLES == 3
CLEAN_MAX_LEN == 80
MAX_LINK_WORDS == 6
HTTP_OK == 200
HTTP_TOO_MANY == 429
HTTP_UNAVAILABLE == 503

(***************************************************************************)
(* Bounds of the exploration.                                               *)
(***************************************************************************)
MaxAsins == 2

\* Python's None
None == [kind |-> "None"]
\* an optional sub-element text: << >> when absent, <<text>> when present
Absent == << >>
Some(t) == <<t>>

(***************************************************************************)
(* String literals of the program.                                          *)
(***************************************************************************)
HintAmazon == <<"a", "m", "a", "z", "o", "n">>
HintAmazonComBr == <<"a", "m", "a", "z", "o", "n", ".", "c", "o", "m", ".", "b", "r">>
HintServicosCedilha == <<"a", "m", "a", "z", "o", "n", " ", "s", "e", "r", "v", "i", "ç", "o", "s", " ", "d", "e", " ", "v", "a", "r", "e", "j", "o">>
HintServicos == <<"a", "m", "a", "z", "o", "n", " ", "s", "e", "r", "v", "i", "c", "o", "s", " ", "d", "e", " ", "v", "a", "r", "e", "j", "o">>
AMAZON_RETAIL_HINTS == <<HintAmazon, HintAmazonComBr, HintServicosCedilha, HintServicos>>
SemOferta == <<"S", "e", "m", " ", "O", "f", "e", "r", "t", "a">>
REPROCESSAR_LABEL == <<"R", "e", "p", "r", "o", "c", "e", "s", "s", "a", "r">>
AmazonCanonical == <<"A", "m", "a", "z", "o", "n">>
CaptchaPhrase == <<"d", "i", "g", "i", "t", "e", " ", "o", "s", " ", "c", "a", "r", "a", "c", "t", "e", "r", "e", "s", " ", "q", "u", "e", " ", "v", "o", "c", "ê", " ", "v", "ê">>
AutomatedAccessPhrase == <<"t", "o", " ", "d", "i", "s", "c", "u", "s", "s", " ", "a", "u", "t", "o", "m", "a", "t", "e", "d", " ", "a", "c", "c", "e", "s", "s">>
SorryWord == <<"s", "o", "r", "r", "y">>
RobotWord == <<"r", "o", "b", "o", "t">>
CombinedLabelPt == <<"e", "n", "v", "i", "a", "d", "o", " ", "/", " ", "v", "e", "n", "d", "i", "d", "o">>
CombinedLabelEn == <<"s", "h", "i", "p", "p", "e", "d", " ", "f", "r", "o", "m", " ", "a", "n", "d", " ", "s", "o", "l", "d", " ", "b", "y">>
ShipsPhrasePt == <<"e", "n", "v", "i", "a", "d", "o", " ", "p", "o", "r", " ", "a", "m", "a", "z", "o", "n">>
ShipsPhraseEn == <<"s", "h", "i", "p", "s", " ", "f", "r", "o", "m", " ", "a", "m", "a", "z", "o", "n">>
StatusAmazonFO == "Amazon FO"
StatusLFO == "LFO"
StatusSemOferta == "Sem Oferta"
StatusReprocessar == "REPROCESSAR"

(***************************************************************************)
(* Python str operations on character sequences.                            *)
(***************************************************************************)
UpperChars == <<"A", "B", "C", "D", "E", "F", "G", "H", "I", "J", "K", "L", "M",
                "N", "O", "P", "Q", "R", "S", "T", "U", "V", "W", "X", "Y", "Z",
                "Ç", "Ê">>
LowerChars == <<"a", "b", "c", "d", "e", "f", "g", "h", "i", "j", "k", "l", "m",
                "n", "o", "p", "q", "r", "s", "t", "u", "v", "w", "x", "y", "z",
                "ç", "ê">>
Whitespace == {" ", "\n", "\t"}

LowerChar(c) ==
    IF \E i \in 1..Len(UpperChars) : UpperChars[i] = c
    THEN LowerChars[CHOOSE i \in 1..Len(UpperChars) : UpperChars[i] = c]
    ELSE c

LowerIdentity(s) == s

\* str.lower()
Lower(s) == [i \in 1..Len(s) |-> LowerChar(s[i])]

\* `sub in s`
Contains(sub, s) ==
    \E i \in 0..(Len(s) - Len(sub)) : SubSeq(s, i + 1, i + Len(sub)) = sub

RECURSIVE LStrip(_)
LStrip(s) == IF s # << >> /\ Head(s) \in Whitespace THEN LStrip(Tail(s)) ELSE s

RECURSIVE RStrip(_)
RStrip(s) ==
    IF s # << >> /\ s[Len(s)] \in Whitespace
    THEN RStrip(SubSeq(s, 1, Len(s) - 1))
    ELSE s

\* str.strip()
Strip(s) == RStrip(LStrip(s))

\* str.split(): the maximal runs of non-whitespace characters
RECURSIVE SplitFrom(_, _, _)
SplitFrom(s, cur, acc) ==
    IF s = << >>
    THEN IF cur = << >> THEN acc ELSE Append(acc, cur)
    ELSE IF Head(s) \in Whitespace
         THEN SplitFrom(Tail(s), << >>, IF cur = << >> THEN acc ELSE Append(acc, cur))
         ELSE SplitFrom(Tail(s), Append(cur, Head(s)), acc)

Split(s) == SplitFrom(s, << >>, << >>)

\* " ".join(parts)
RECURSIVE Join(_)
Join(parts) ==
    IF parts = << >> THEN << >>
    ELSE IF Len(parts) = 1 THEN parts[1]
    ELSE parts[1] \o <<" ">> \o Join(Tail(parts))

\* s[:n]
Prefix(s, n) == SubSeq(s, 1, IF Len(s) < n THEN Len(s) ELSE n)

normalize_spaces(s) == Strip(Join(Split(s)))

is_amazon_name_cased(name) ==
    LET n == Strip(name)
    IN  IF n = << >> THEN FALSE
        ELSE \E h \in 1..Len(AMAZON_RETAIL_HINTS) : Contains(AMAZON_RETAIL_HINTS[h], n)

is_amazon_name(name) ==
    LET n == Strip(Lower(name))
    IN  IF n = << >> THEN FALSE
        ELSE \E h \in 1..Len(AMAZON_RETAIL_HINTS) : Contains(AMAZON_RETAIL_HINTS[h], n)

(***************************************************************************)
(* Markup.  A parsed page is a sequence of elements in document order:      *)
(*   label    the merchant-info label div, with its text                    *)
(*   merchant the merchant-info text div: the text of its seller anchor     *)
(*            (a), of its message span (span) and its remaining text (own); *)
(*            Absent for a sub-element that is not there                    *)
(*   link     an element matched by the fallback seller-link selector       *)
(*   prime    an element matched by the Prime badge selector                *)
(*   p        any other text                                                *)
(* The empty sequence is the empty body.                                    *)
(***************************************************************************)
ElText(e) ==
    IF e.kind = "merchant"
    THEN Join(SelectSeq(<<IF e.a = Absent THEN << >> ELSE Strip(e.a[1]),
                          IF e.span = Absent THEN << >> ELSE Strip(e.span[1]),
                          Strip(e.own)>>, LAMBDA x : x # << >>))
    ELSE IF e.kind = "prime" THEN << >>
    ELSE Strip(e.text)

\* soup.get_text(" ", strip=True); also stands for the text of the raw body
RECURSIVE GetText(_)
GetText(html) ==
    IF html = << >> THEN << >>
    ELSE LET t == ElText(Head(html))
             r == GetText(Tail(html))
         IN  IF t = << >> THEN r
             ELSE IF r = << >> THEN t
             ELSE t \o <<" ">> \o r

\* soup.select_one: the first element of a kind, or None
SelectOne(html, kind) ==
    IF \E i \in 1..Len(html) : html[i].kind = kind
    THEN html[CHOOSE i \in 1..Len(html) :
                 /\ html[i].kind = kind
                 /\ \A j \in 1..(i - 1) : html[j].kind # kind]
    ELSE None

detect_soft_block_either(resp, html) ==
    IF resp = None THEN TRUE
    ELSE IF resp.status_code \in {HTTP_TOO_MANY, HTTP_UNAVAILABLE} THEN TRUE
    ELSE LET t == Lower(GetText(html))
         IN  \/ Contains(CaptchaPhrase, t)
             \/ Contains(AutomatedAccessPhrase, t)
             \/ Contains(SorryWord, t)
             \/ Contains(RobotWord, t)

detect_soft_block(resp, html) ==
    IF resp = None THEN TRUE
    ELSE IF resp.status_code \in {HTTP_TOO_MANY, HTTP_UNAVAILABLE} THEN TRUE
    ELSE LET t == Lower(GetText(html))
         IN  IF Contains(CaptchaPhrase, t) THEN TRUE
             ELSE IF Contains(AutomatedAccessPhrase, t) THEN TRUE
             ELSE IF Contains(SorryWord, t) /\ Contains(RobotWord, t) THEN TRUE
             ELSE FALSE

(***************************************************************************)
(* extract_sold_shipped_from_dp                                             *)
(***************************************************************************)
clean(s) ==
    LET n == normalize_spaces(s)
    IN  IF n = << >> THEN SemOferta
        ELSE LET c == Prefix(Strip(n), CLEAN_MAX_LEN)
             IN  IF c # << >> THEN c ELSE SemOferta

pick_merchant_text(root) ==
    IF root = None THEN SemOferta
    ELSE IF root.a # Absent THEN clean(root.a[1])
    ELSE IF root.span # Absent THEN clean(root.span[1])
    ELSE clean(ElText(root))

RECURSIVE FirstSellerLinkAnyLength(_)
FirstSellerLinkAnyLength(html) ==
    IF html = << >> THEN SemOferta
    ELSE LET e == Head(html)
         IN  IF e.kind = "link" /\ clean(e.text) # SemOferta
             THEN clean(e.text)
             ELSE FirstSellerLinkAnyLength(Tail(html))

\* lines 196-205: the first accepted fallback link name, "Sem Oferta" if none
RECURSIVE FirstSellerLink(_)
FirstSellerLink(html) ==
    IF html = << >> THEN SemOferta
    ELSE LET e == Head(html)
         IN  IF e.kind = "link"
                /\ clean(e.text) # SemOferta
                /\ Len(Split(clean(e.text))) <= MAX_LINK_WORDS
             THEN clean(e.text)
             ELSE FirstSellerLink(Tail(html))

ResolveShipperDefaultAmazon(html, vendido) == AmazonCanonical

\* lines 207-216: the shipper of a resolved seller whose shipper is open
ResolveShipper(html, vendido) ==
    LET page_text == Lower(GetText(html))
    IN  IF Contains(ShipsPhrasePt, page_text) \/ Contains(ShipsPhraseEn, page_text)
        THEN AmazonCanonical
        ELSE IF SelectOne(html, "prime") # None THEN AmazonCanonical ELSE vendido

extract_shipper_without_seller(html) ==
    LET label_el == SelectOne(html, "label")
        text_el == SelectOne(html, "merchant")
        label_txt == IF label_el # None THEN Lower(clean(label_el.text)) ELSE << >>
        merchant_txt == pick_merchant_text(text_el)
        \* lines 184-193
        amazon_block == merchant_txt # SemOferta /\ is_amazon_name(merchant_txt)
        vendido1 == IF merchant_txt # SemOferta THEN merchant_txt ELSE SemOferta
        enviado1 == IF /\ merchant_txt # SemOferta
                       /\ \/ Contains(CombinedLabelPt, label_txt)
                          \/ Contains(CombinedLabelEn, label_txt)
                    THEN vendido1
                    ELSE SemOferta
        \* lines 195-205
        link == IF vendido1 = SemOferta THEN FirstSellerLink(html) ELSE SemOferta
        amazon_link == link # SemOferta /\ is_amazon_name(link)
        vendido2 == IF vendido1 = SemOferta THEN link ELSE vendido1
        \* lines 207-216
        enviado2 == IF enviado1 = SemOferta
                    THEN ResolveShipper(html, vendido2)
                    ELSE enviado1
    IN  IF amazon_block THEN <<AmazonCanonical, AmazonCanonical>>
        ELSE IF amazon_link THEN <<AmazonCanonical, AmazonCanonical>>
        ELSE IF vendido2 = SemOferta /\ enviado2 = SemOferta
             THEN <<SemOferta, SemOferta>>
             ELSE <<vendido2, enviado2>>

extract_sold_shipped_from_dp(html) ==
    LET label_el == SelectOne(html, "label")
        text_el == SelectOne(html, "merchant")
        label_txt == IF label_el # None THEN Lower(clean(label_el.text)) ELSE << >>
        merchant_txt == pick_merchant_text(text_el)
        \* lines 184-193
        amazon_block == merchant_txt # SemOferta /\ is_amazon_name(merchant_txt)
        vendido1 == IF merchant_txt # SemOferta THEN merchant_txt ELSE SemOferta
        enviado1 == IF /\ merchant_txt # SemOferta
                       /\ \/ Contains(CombinedLabelPt, label_txt)
                          \/ Contains(CombinedLabelEn, label_txt)
                    THEN vendido1
                    ELSE SemOferta
        \* lines 195-205
        link == IF vendido1 = SemOferta THEN FirstSellerLink(html) ELSE SemOferta
        amazon_link == link # SemOferta /\ is_amazon_name(link)
        vendido2 == IF vendido1 = SemOferta THEN link ELSE vendido1
        \* lines 207-216
        enviado2 == IF vendido2 # SemOferta /\ enviado1 = SemOferta
                    THEN ResolveShipper(html, vendido2)
                    ELSE enviado1
    IN  IF amazon_block THEN <<AmazonCanonical, AmazonCanonical>>
        ELSE IF amazon_link THEN <<AmazonCanonical, AmazonCanonical>>
        ELSE IF vendido2 = SemOferta /\ enviado2 = SemOferta
             THEN <<SemOferta, SemOferta>>
             ELSE <<vendido2, enviado2>>

\* lines 266-270 of scrape_one_asin
ClassifyEither(vendido, enviado) ==
    IF vendido = SemOferta /\ enviado = SemOferta THEN StatusSemOferta
    ELSE IF is_amazon_name(vendido) \/ is_amazon_name(enviado) THEN StatusAmazonFO
    ELSE StatusLFO

Classify(vendido, enviado) ==
    IF vendido = SemOferta /\ enviado = SemOferta THEN StatusSemOferta
    ELSE IF is_amazon_name(vendido) /\ is_amazon_name(enviado) THEN StatusAmazonFO
    ELSE StatusLFO

(***************************************************************************)
(* What the marketplace may answer.  Texts found on pages:                  *)
(***************************************************************************)
TxtAmazonComBr == <<"A", "m", "a", "z", "o", "n", ".", "c", "o", "m", ".", "b", "r">>
TxtLojaXYZ == <<"L", "o", "j", "a", " ", " ", "X", "Y", "Z", " ">>
TxtReprocessar == <<"R", "e", "p", "r", "o", "c", "e", "s", "s", "a", "r">>
TxtSemOferta == <<"S", "e", "m", " ", "O", "f", "e", "r", "t", "a">>
TxtBlank == <<" ", " ">>
TxtSevenWords == <<"a", " ", "b", " ", "c", " ", "d", " ", "e", " ", "f", " ", "g">>
TxtLabelCombined == <<"E", "n", "v", "i", "a", "d", "o", " ", "/", " ", "V", "e", "n", "d", "i", "d", "o", " ", "p", "o", "r">>
TxtLabelSold == <<"V", "e", "n", "d", "i", "d", "o", " ", "p", "o", "r">>
TxtShipsAmazon == <<"E", "n", "v", "i", "a", "d", "o", " ", "p", "o", "r", " ", "A", "m", "a", "z", "o", "n">>
TxtCaptcha == <<"D", "i", "g", "i", "t", "e", " ", "o", "s", " ", "c", "a", "r", "a", "c", "t", "e", "r", "e", "s", " ", "q", "u", "e", " ", "v", "o", "c", "ê", " ", "v", "ê">>
TxtAutomated == <<"T", "o", " ", "d", "i", "s", "c", "u", "s", "s", " ", "a", "u", "t", "o", "m", "a", "t", "e", "d", " ", "a", "c", "c", "e", "s", "s">>
TxtSorry == <<"S", "o", "r", "r", "y">>
TxtRobot == <<"n", "o", "t", " ", "a", " ", "r", "o", "b", "o", "t">>
TxtNotFound == <<"P", "a", "g", "e", " ", "n", "o", "t", " ", "f", "o", "u", "n", "d">>

P(t) == [kind |-> "p", text |-> t]
LabelEl(t) == [kind |-> "label", text |-> t]
MerchantEl(a, span, own) == [kind |-> "merchant", a |-> a, span |-> span, own |-> own]
LinkEl(t) == [kind |-> "link", text |-> t]
PrimeEl == [kind |-> "prime"]

\* The bodies the marketplace may send, by name; the state holds references
\* (names) to bodies and responses, the tables below hold their content.
PageNames ==
    {"empty", "third_combined", "third_fba", "amazon", "no_offer",
     "named_reprocessar", "captcha", "sorry_robot", "automated"}

PageOf(h) ==
    CASE h = "empty" -> << >>
      [] h = "third_combined" ->
            <<LabelEl(TxtLabelCombined), MerchantEl(Some(TxtLojaXYZ), Absent, << >>)>>
      [] h = "third_fba" ->
            <<LabelEl(TxtLabelSold), MerchantEl(Some(TxtLojaXYZ), Absent, << >>),
              P(TxtShipsAmazon)>>
      [] h = "amazon" ->
            <<LabelEl(TxtLabelSold), MerchantEl(Absent, Some(TxtAmazonComBr), << >>)>>
      [] h = "no_offer" -> <<P(TxtNotFound)>>
      [] h = "named_reprocessar" ->
            <<LabelEl(TxtLabelCombined), MerchantEl(Some(TxtReprocessar), Absent, << >>)>>
      [] h = "captcha" -> <<P(TxtCaptcha)>>
      [] h = "sorry_robot" -> <<P(TxtSorry), P(TxtRobot)>>
      [] h = "automated" -> <<P(TxtAutomated)>>

\* a requests.Response: its status code and the name of its body (resp.text)
Response(code, h) == [kind |-> "resp", status_code |-> code, text |-> h]
\* a request that raises an error of class cls
Raises(cls) == [kind |-> "exc", cls |-> cls]

\* the classes of the errors session.get raises; all derive from Exception
ExceptionClasses == {"ConnectionError", "ReadTimeout"}

GoodOutcomes == {"200_third_combined", "200_third_fba", "200_amazon", "200_no_offer",
                 "200_named_reprocessar"}
ErrorOutcomes == {"404_no_offer", "404_empty", "200_empty"}
BlockedOutcomes == {"429_empty", "503_no_offer", "200_captcha", "200_sorry_robot",
                    "404_automated"}
FailedOutcomes == {"ConnectionError", "ReadTimeout"}
FullWorld == GoodOutcomes \cup ErrorOutcomes \cup BlockedOutcomes \cup FailedOutcomes

OutcomeOf(o) ==
    CASE o = "200_third_combined" -> Response(HTTP_OK, "third_combined")
      [] o = "200_third_fba" -> Response(HTTP_OK, "third_fba")
      [] o = "200_amazon" -> Response(HTTP_OK, "amazon")
      [] o = "200_no_offer" -> Response(HTTP_OK, "no_offer")
      [] o = "200_named_reprocessar" -> Response(HTTP_OK, "named_reprocessar")
      [] o = "404_no_offer" -> Response(404, "no_offer")
      [] o = "404_empty" -> Response(404, "empty")
      [] o = "200_empty" -> Response(HTTP_OK, "empty")
      [] o = "429_empty" -> Response(HTTP_TOO_MANY, "empty")
      [] o = "503_no_offer" -> Response(HTTP_UNAVAILABLE, "no_offer")
      [] o = "200_captcha" -> Response(HTTP_OK, "captcha")
      [] o = "200_sorry_robot" -> Response(HTTP_OK, "sorry_robot")
      [] o = "404_automated" -> Response(404, "automated")
      [] o \in FailedOutcomes -> Raises(o)

\* a reference to a response object, or to None
NoResp == "None"
RespRefs == (FullWorld \ FailedOutcomes) \cup {NoResp}
RespOf(r) == IF r = NoResp THEN None ELSE OutcomeOf(r)

(***************************************************************************)
(* Identifiers and input lists.                                             *)
(***************************************************************************)
Digits == <<"1", "2", "3", "4", "5", "6", "7", "8", "9">>
Asin(i) == <<"B", "0", "0", "0", "0", "0", "0", "0", "0", Digits[i]>>

\* valid_asins as index hands them over: in input order, repeats kept
InputLists ==
    {[i \in 1..n |-> Asin(i)] : n \in 1..MaxAsins}
    \cup {[i \in 1..n |-> Asin(IF i = n THEN 1 ELSE i)] : n \in 2..MaxAsins}
    \cup {[i \in 1..n |-> Asin(n + 1 - i)] : n \in 2..MaxAsins}

Range(f) == {f[i] : i \in DOMAIN f}

\* The answers the marketplace may give for an identifier.  A run of a single
\* identifier may meet every answer; in a batch the first identifier's page is
\* served or not found, the second's requests fail in transport or are
\* rate-limited, and the others' pages are served.
Marketplace(list) ==
    IF Len(list) = 1
    THEN [a \in Range(list) |-> FullWorld]
    ELSE [a \in Range(list) |->
            IF a = Asin(1)
            THEN {"200_third_combined", "404_no_offer"}
            ELSE IF a = Asin(2)
            THEN {"ConnectionError", "429_empty"}
            ELSE {"200_amazon"}]

(***************************************************************************)
(* State.                                                                   *)
(***************************************************************************)
VARIABLES
    asins,      \* the list given to get_offer_info_scrape_parallel
    serve,      \* identifier -> the outcomes a request for it may have
    mainpc,     \* the calling thread: "submit", "collect", "returned", "raised",
                \* "rendered"
    submitted,  \* how many futures ex.submit has created
    queue,      \* the executor's work queue: submitted tasks no thread has taken
    nthreads,   \* worker threads the executor has started
    idle,       \* the executor's idle semaphore
    running,    \* thread -> the task it executes, 0 when it waits for work
    tls,        \* _thread_local.session per thread: a handle or None
    made,       \* thread -> Session objects it has constructed
    task,       \* task -> the frame of its scrape_one_asin call: where it is
                \* (pc), its locals (cycle, attempt, last, the pair ret that
                \* safe_get returned, session), the thread that runs it (by),
                \* the requests it has issued (reqs), the Fetch Cycles that
                \* ended without a usable page (fails), the record returned
                \* (rec); of the safe_get call it is in: the requests issued
                \* (creq), the sleeps done (csleep), the outcome of the last
                \* request (lastout), whether a request got a blocked
                \* response (sawblocked); the handle of its last request
                \* (reqsess); the Fetch Cycles it has started (ncycles) and
                \* the calls get_session(force_new=True) it has made (renewals)
    results,    \* the results dict
    collected,  \* the futures as_completed has yielded
    page,       \* what index renders: the result rows and the summary
    px,         \* the helper under direct evaluation: its argument (in) and,
                \* once it has run (done), its result (out)
    hist        \* thread -> the handles it has issued requests on (used) and
                \* those on which a Fetch Cycle ended blocked or without a
                \* response (tainted)

vars == <<asins, serve, mainpc, submitted, queue, nthreads, idle, running, tls,
          made, task, results, collected, hist, px, page>>

Workers == 1..MAX_WORKERS
Tasks == 1..Len(asins)

\* (None, "")
NoResult == <<NoResp, "empty">>

\* no helper is under direct evaluation
NoProbe == [fn |-> "none", in |-> None, done |-> FALSE, out |-> None]

NewTask ==
    [pc |-> "new", cycle |-> 0, attempt |-> 0, last |-> NoResult, ret |-> NoResult,
     session |-> None, by |-> 0, reqs |-> 0, fails |-> 0, rec |-> None,
     creq |-> 0, csleep |-> 0, lastout |-> NoResp, sawblocked |-> FALSE,
     reqsess |-> None, ncycles |-> 0, renewals |-> 0]

Record(vendido, enviado, status) ==
    [vendido |-> vendido, enviado |-> enviado, status |-> status]

Init ==
    /\ asins \in InputLists
    /\ serve = Marketplace(asins)
    /\ mainpc = "submit"
    /\ submitted = 0
    /\ queue = << >>
    /\ nthreads = 0
    /\ idle = 0
    /\ running = [w \in Workers |-> 0]
    /\ tls = [w \in Workers |-> None]
    /\ made = [w \in Workers |-> 0]
    /\ task = [t \in Tasks |-> NewTask]
    /\ results = << >>
    /\ collected = {}
    /\ hist = [w \in Workers |-> [used |-> {}, tainted |-> {}]]
    /\ px = NoProbe
    /\ page = None

(***************************************************************************)
(* get_offer_info_scrape_parallel: the calling thread.                      *)
(***************************************************************************)
\* line 281, one ex.submit: queue the work item, then start a thread unless
\* the idle semaphore can be taken or max_workers threads exist
Submit ==
    /\ mainpc = "submit"
    /\ submitted < Len(asins)
    /\ submitted' = submitted + 1
    /\ queue' = Append(queue, submitted + 1)
    /\ task' = [task EXCEPT ![submitted + 1].pc = "queued"]
    /\ IF idle > 0
       THEN idle' = idle - 1 /\ nthreads' = nthreads
       ELSE /\ idle' = idle
            /\ nthreads' = IF nthreads < MAX_WORKERS THEN nthreads + 1 ELSE nthreads
    /\ mainpc' = IF submitted + 1 = Len(asins) THEN "collect" ELSE "submit"
    /\ UNCHANGED <<page, px, asins, serve, running, tls, made, results, collected, hist>>

\* line 284: results[asin] = (vendido, enviado, status)
StoreResultRebind(res, asin, rec) == [a \in {asin} |-> rec]

StoreResult(res, asin, rec) ==
    [a \in DOMAIN res \cup {asin} |-> IF a = asin THEN rec ELSE res[a]]

\* lines 282-284, one turn of the as_completed loop
Collect(t) ==
    /\ mainpc = "collect"
    /\ t \notin collected
    /\ task[t].pc \in {"done", "raised"}
    /\ collected' = collected \cup {t}
    /\ IF task[t].pc = "raised"
       THEN mainpc' = "raised" /\ results' = results
       ELSE /\ mainpc' = mainpc
            /\ results' = StoreResult(results, asins[t], task[t].rec)
    /\ UNCHANGED <<page, px, asins, serve, submitted, queue, nthreads, idle, running, tls,
                   made, task, hist>>

\* lines 282-285: the loop ends when as_completed has yielded every future
ReturnAfterFirst == collected # {}

LoopOver == collected = Tasks

\* line 285, after the with block has joined the threads
Return ==
    /\ mainpc = "collect"
    /\ LoopOver
    /\ \A t \in Tasks : task[t].pc \in {"done", "raised"}
    /\ mainpc' = "returned"
    /\ UNCHANGED <<page, px, asins, serve, submitted, queue, nthreads, idle, running, tls,
                   made, task, results, collected, hist>>

(***************************************************************************)
(* The worker threads.                                                      *)
(***************************************************************************)
WaitingAlways(w) == TRUE

WaitsOnce(w) == running[w] = 0 /\ \A t \in Tasks : task[t].by # w

\* a thread of the pool is between work items, blocked on the work queue
Waiting(w) == running[w] = 0

\* a waiting thread takes the oldest work item and enters scrape_one_asin
Take(w) ==
    /\ w <= nthreads
    /\ Waiting(w)
    /\ queue # << >>
    /\ running' = [running EXCEPT ![w] = Head(queue)]
    /\ queue' = Tail(queue)
    /\ task' = [task EXCEPT ![Head(queue)].pc = "get_session",
                            ![Head(queue)].by = w,
                            ![Head(queue)].cycle = 0]
    /\ UNCHANGED <<page, px, asins, serve, mainpc, submitted, nthreads, idle, tls, made,
                   results, collected, hist>>

\* line 62: the slot of _thread_local that thread w reads and writes
SharedSlot(w) == 1

ThreadLocalSlot(w) == w

get_session_keeps(w, force_new) ==
    IF tls[w] = None
    THEN <<[kind |-> "Session", owner |-> w, serial |-> made[w] + 1], made[w] + 1>>
    ELSE <<tls[w], made[w]>>

\* get_session(force_new): <<the handle returned, the slot's new content, made>>
get_session(w, force_new) ==
    LET kept == IF force_new THEN None ELSE tls[ThreadLocalSlot(w)]
    IN  IF kept = None
        THEN <<[kind |-> "Session", owner |-> w, serial |-> made[w] + 1], made[w] + 1>>
        ELSE <<kept, made[w]>>

\* line 229
GetSession(w) ==
    LET t == running[w]
    IN  /\ t # 0
        /\ task[t].pc = "get_session"
        /\ LET s == get_session(w, task[t].cycle > 0)
           IN  /\ tls' = [tls EXCEPT ![ThreadLocalSlot(w)] = s[1]]
               /\ made' = [made EXCEPT ![w] = s[2]]
               /\ task' = [task EXCEPT ![t].pc = "safe_get",
                                       ![t].session = s[1],
                                       ![t].attempt = 0,
                                       ![t].last = NoResult,
                                       ![t].creq = 0,
                                       ![t].csleep = 0,
                                       ![t].lastout = NoResp,
                                       ![t].sawblocked = FALSE,
                                       ![t].ncycles = @ + 1,
                                       ![t].renewals =
                                           IF task[t].cycle > 0 THEN @ + 1 ELSE @]
        /\ UNCHANGED <<page, px, asins, serve, mainpc, submitted, queue, nthreads, idle,
                       running, results, collected, hist>>

\* line 129: the classes `except Exception` catches
except_timeout_only(cls) == cls = "ReadTimeout"

except_Exception(cls) == cls \in ExceptionClasses

\* detect_soft_block on every (response, body) the run can hold, computed once
BlockedAlways == [r \in RespRefs, h \in PageNames |-> TRUE]

Blocked == [r \in RespRefs, h \in PageNames |-> detect_soft_block(RespOf(r), PageOf(h))]

\* line 114: range(max_retries + 1)
AttemptsOneMore(max_retries) == max_retries + 2

Attempts(max_retries) == max_retries + 1

\* line 130: what the except branch leaves in `last`
LastAfterErrorKeeps(last) == last

LastAfterError(last) == NoResult

\* line 134: the sleeps after an attempt that did not return
SleepsAfterAttempt == 1

\* lines 114-136, one turn of safe_get's loop: the request, the block test,
\* the sleep, and the return when the loop is over
SafeGetAttempt(w) ==
    LET t == running[w]
    IN  /\ t # 0
        /\ task[t].pc = "safe_get"
        /\ \E o \in serve[asins[t]] :
              LET out == OutcomeOf(o)
                  over == task[t].attempt + 1 >= Attempts(SAFEGET_RETRIES_PER_CYCLE)
              IN  IF out.kind = "exc" /\ ~except_Exception(out.cls)
                  THEN \* the error leaves safe_get and scrape_one_asin
                       /\ task' = [task EXCEPT ![t].pc = "raised",
                                               ![t].reqs = @ + 1,
                                               ![t].creq = @ + 1,
                                               ![t].lastout = o,
                                               ![t].reqsess = task[t].session]
                       /\ running' = [running EXCEPT ![w] = 0]
                       /\ idle' = idle + 1
                  ELSE IF out.kind = "resp" /\ ~Blocked[o, out.text]
                  THEN /\ task' = [task EXCEPT ![t].pc = "decide",
                                               ![t].ret = <<o, out.text>>,
                                               ![t].reqs = @ + 1,
                                               ![t].creq = @ + 1,
                                               ![t].lastout = o,
                                               ![t].reqsess = task[t].session]
                       /\ UNCHANGED <<running, idle>>
                  ELSE LET last == IF out.kind = "exc"
                                   THEN LastAfterError(task[t].last)
                                   ELSE <<o, out.text>>
                       IN  /\ task' = [task EXCEPT
                                         ![t].last = last,
                                         ![t].reqs = @ + 1,
                                         ![t].attempt = @ + 1,
                                         ![t].pc = IF over THEN "decide" ELSE "safe_get",
                                         ![t].ret = IF over THEN last ELSE task[t].ret,
                                         ![t].creq = @ + 1,
                                         ![t].csleep = @ + SleepsAfterAttempt,
                                         ![t].lastout = o,
                                         ![t].sawblocked = @ \/ out.kind = "resp",
                                         ![t].reqsess = task[t].session]
                           /\ UNCHANGED <<running, idle>>
        /\ hist' = [hist EXCEPT ![w].used = @ \cup {task[t].session}]
        /\ UNCHANGED <<page, px, asins, serve, mainpc, submitted, queue, nthreads, tls, made,
                       results, collected>>

\* lines 243, 256, 275: the record of an exhausted recovery
ExhaustedAsNoOffer == Record(SemOferta, SemOferta, StatusSemOferta)

ExhaustedRecord == Record(REPROCESSAR_LABEL, REPROCESSAR_LABEL, StatusReprocessar)

\* line 260: the record of a response whose status is not 200
NonSuccessAsReprocess == Record(REPROCESSAR_LABEL, REPROCESSAR_LABEL, StatusReprocessar)

NonSuccessRecord == Record(SemOferta, SemOferta, StatusSemOferta)

\* lines 239, 246: safe_get's result is no usable page
Unusable(r, h) == r = NoResp \/ h = "empty" \/ Blocked[r, h]

CycleVerdictEarly(resp, html, cycle) ==
    IF resp = None \/ html = << >>
    THEN IF cycle < MAX_BLOCKED_CYCLES - 1 THEN None ELSE ExhaustedRecord
    ELSE IF detect_soft_block(resp, html)
    THEN IF cycle < MAX_BLOCKED_CYCLES - 1 THEN None ELSE ExhaustedRecord
    ELSE IF resp.status_code # HTTP_OK
    THEN NonSuccessRecord
    ELSE LET pair == extract_sold_shipped_from_dp(html)
         IN  Record(pair[1], pair[2], Classify(pair[1], pair[2]))

\* lines 239-273 on what safe_get returned in cycle `cycle`: the record
\* returned, or None when the loop goes on to the next cycle
CycleVerdict(resp, html, cycle) ==
    IF resp = None \/ html = << >>
    THEN IF cycle < MAX_BLOCKED_CYCLES THEN None ELSE ExhaustedRecord
    ELSE IF detect_soft_block(resp, html)
    THEN IF cycle < MAX_BLOCKED_CYCLES THEN None ELSE ExhaustedRecord
    ELSE IF resp.status_code # HTTP_OK
    THEN NonSuccessRecord
    ELSE LET pair == extract_sold_shipped_from_dp(html)
         IN  Record(pair[1], pair[2], Classify(pair[1], pair[2]))

\* CycleVerdict on every (response, body, cycle) the run can hold, computed once
Verdict ==
    [r \in RespRefs, h \in PageNames, c \in 0..MAX_BLOCKED_CYCLES |->
        CycleVerdict(RespOf(r), PageOf(h), c)]

\* lines 238-273: the rest of the cycle, to the next cycle or to the return
Decide(w) ==
    LET t == running[w]
    IN  /\ t # 0
        /\ task[t].pc = "decide"
        /\ LET rec == Verdict[task[t].ret[1], task[t].ret[2], task[t].cycle]
               bad == IF Unusable(task[t].ret[1], task[t].ret[2]) THEN 1 ELSE 0
               taint == IF Blocked[task[t].ret[1], task[t].ret[2]]
                        THEN {task[t].session} ELSE {}
           IN  /\ hist' = [hist EXCEPT ![w].tainted = @ \cup taint]
               /\ IF rec = None
                  THEN /\ task' = [task EXCEPT ![t].pc = "get_session",
                                               ![t].cycle = @ + 1,
                                               ![t].fails = @ + bad]
                       /\ UNCHANGED <<running, idle>>
                  ELSE /\ task' = [task EXCEPT ![t].pc = "done",
                                               ![t].rec = rec,
                                               ![t].fails = @ + bad,
                                               ![t].attempt = 0,
                                               ![t].last = NoResult,
                                               ![t].creq = 0,
                                               ![t].csleep = 0,
                                               ![t].lastout = NoResp,
                                               ![t].sawblocked = FALSE]
                       /\ running' = [running EXCEPT ![w] = 0]
                       /\ idle' = idle + 1
        /\ UNCHANGED <<page, px, asins, serve, mainpc, submitted, queue, nthreads, tls, made,
                       results, collected>>

(***************************************************************************)
(* index, after the engine has returned.                                    *)
(***************************************************************************)
status_ui_raw(status) == status

\* lines 994-997: the status shown
status_ui(status) == IF status = "REPROCESSAR" THEN "Reprocessar" ELSE status

\* lines 988-1007: one row per element of valid_asins
full_results ==
    [i \in 1..Len(asins) |->
        LET rec == IF asins[i] \in DOMAIN results
                   THEN results[asins[i]]
                   ELSE Record(SemOferta, SemOferta, StatusSemOferta)
        IN  [asin |-> asins[i], vendido |-> rec.vendido, enviado |-> rec.enviado,
             status |-> status_ui(rec.status)]]

\* sum(1 for r in full_results if r["status"] == status)
CountStatus(rows, status) == Cardinality({i \in DOMAIN rows : rows[i].status = status})

\* lines 1009-1030; lfo_pct is kept as the fraction <<lfo_count * 100, total>>
Summary(rows) ==
    [total |-> Len(rows),
     lfo_count |-> CountStatus(rows, "LFO"),
     amazonfo_count |-> CountStatus(rows, "Amazon FO"),
     reproc_count |-> CountStatus(rows, "Reprocessar"),
     nooffer_count |-> Cardinality({i \in DOMAIN rows :
                                       /\ rows[i].status = "Sem Oferta"
                                       /\ rows[i].vendido # REPROCESSAR_LABEL}),
     lfo_pct |-> <<CountStatus(rows, "LFO") * 100, Len(rows)>>]

\* lines 986-1041: the rows, the summary and the rendering
Render ==
    /\ mainpc = "returned"
    /\ asins # << >>
    /\ mainpc' = "rendered"
    /\ page' = [rows |-> full_results, summary |-> Summary(full_results)]
    /\ UNCHANGED <<px, asins, serve, submitted, queue, nthreads, idle, running, tls,
                   made, task, results, collected, hist>>

Next ==
    \/ Submit
    \/ \E t \in Tasks : Collect(t)
    \/ Return
    \/ \E w \in Workers : Take(w)
    \/ \E w \in Workers : GetSession(w)
    \/ \E w \in Workers : SafeGetAttempt(w)
    \/ \E w \in Workers : Decide(w)
    \/ Render

Spec == Init /\ [][Next]_vars

\* A batch of MAX_WORKERS + 1 identifiers at the moment the first MAX_WORKERS
\* of them have each been submitted and taken by a thread of their own (no
\* thread was idle at any submit, so each submit started a thread), each
\* thread has made its handle and is about to send its first request, and the
\* calling thread is about to submit the last identifier.  Every request is
\* answered with the operator's page.
FirstHandle(w) == [kind |-> "Session", owner |-> w, serial |-> 1]

PoolAsins == [i \in 1..(MAX_WORKERS + 1) |-> Asin(i)]

InitPool ==
    /\ asins = PoolAsins
    /\ serve = [a \in Range(PoolAsins) |-> {"200_amazon"}]
    /\ mainpc = "submit"
    /\ submitted = MAX_WORKERS
    /\ queue = << >>
    /\ nthreads = MAX_WORKERS
    /\ idle = 0
    /\ running = [w \in Workers |-> w]
    /\ tls = [w \in Workers |-> FirstHandle(w)]
    /\ made = [w \in Workers |-> 1]
    /\ task = [t \in Tasks |->
                 IF t <= MAX_WORKERS
                 THEN [NewTask EXCEPT !.pc = "safe_get", !.by = t,
                                      !.session = FirstHandle(t), !.ncycles = 1]
                 ELSE NewTask]
    /\ results = << >>
    /\ collected = {}
    /\ hist = [w \in Workers |-> [used |-> {}, tainted |-> {}]]
    /\ px = NoProbe
    /\ page = None

SpecPool == InitPool /\ [][Next]_vars

\* The scheduler runs every thread that can take a step: the calling thread
\* and each thread of the pool; every request returns or fails and every
\* sleep ends (a turn of safe_get is one step).
Fairness == WF_vars(Next)

\* The same batch a little later: each of the six threads has got the page
\* at its first request and is about to classify it.

InitDrain ==
    /\ asins = PoolAsins
    /\ serve = [a \in Range(PoolAsins) |-> {"200_amazon"}]
    /\ mainpc = "submit"
    /\ submitted = MAX_WORKERS
    /\ queue = << >>
    /\ nthreads = MAX_WORKERS
    /\ idle = 0
    /\ running = [w \in Workers |-> w]
    /\ tls = [w \in Workers |-> FirstHandle(w)]
    /\ made = [w \in Workers |-> 1]
    /\ task = [t \in Tasks |->
                 IF t <= MAX_WORKERS
                 THEN [NewTask EXCEPT !.pc = "decide", !.by = t,
                                      !.session = FirstHandle(t),
                                      !.reqsess = FirstHandle(t),
                                      !.ret = <<"200_amazon", "amazon">>,
                                      !.lastout = "200_amazon",
                                      !.reqs = 1, !.creq = 1, !.ncycles = 1]
                 ELSE NewTask]
    /\ results = << >>
    /\ collected = {}
    /\ hist = [w \in Workers |-> [used |-> {FirstHandle(w)}, tainted |-> {}]]
    /\ px = NoProbe
    /\ page = None

FairSpec == (Init \/ InitDrain) /\ [][Next]_vars /\ Fairness

(***************************************************************************)
(* The helpers evaluated on their own: extract_sold_shipped_from_dp with    *)
(* the classification of scrape_one_asin, detect_soft_block, and the token  *)
(* handling of index.  The argument is held as the choices it is built      *)
(* from; the batch machinery is at rest.                                    *)
(***************************************************************************)
TxtLabelCombinedEn == <<"S", "h", "i", "p", "p", "e", "d", " ", "f", "r", "o", "m", " ", "a", "n", "d", " ", "s", "o", "l", "d", " ", "b", "y">>
TxtAmazonServicos == <<"A", "M", "A", "Z", "O", "N", " ", "S", "E", "R", "V", "I", "Ç", "O", "S", " ", "D", "E", " ", "V", "A", "R", "E", "J", "O", " ", "D", "O", " ", "B", "R", "A", "S", "I", "L", " ", "L", "T", "D", "A", ".">>
TxtAmazonLower == <<" ", "a", "m", "a", "z", "o", "n", " ">>
TxtOutraLoja == <<"O", "u", "t", "r", "a", " ", "L", "o", "j", "a">>
TxtShipsAmazonEn == <<"S", "h", "i", "p", "s", " ", "f", "r", "o", "m", " ", "A", "m", "a", "z", "o", "n">>
NameLojaXYZ == <<"L", "o", "j", "a", " ", "X", "Y", "Z">>

LabelChoices == {"none", "sold", "combined_pt", "combined_en"}
MerchantChoices ==
    {"absent", "blank", "blank_a_amazon_span", "a_amazon", "span_amazon_upper",
     "own_amazon", "a_third", "a_third_span_amazon", "span_third", "own_third"}
LinkChoices == {"none", "blank", "seven_words", "third", "seven_then_third", "amazon"}
ShipChoices == {"none", "pt", "en"}

\* the merchant blocks whose visible seller name is an operator-name variant,
\* is another name, or is missing
OperatorBlocks == {"a_amazon", "span_amazon_upper", "own_amazon"}
ThirdPartyBlocks == {"a_third", "a_third_span_amazon", "span_third", "own_third"}
NoNameBlocks == {"absent", "blank", "blank_a_amazon_span"}
\* the fallback links that carry no name or a name of more than six words
NoAcceptedLinks == {"none", "blank", "seven_words"}

LabelPart(c) ==
    CASE c = "none" -> << >>
      [] c = "sold" -> <<LabelEl(TxtLabelSold)>>
      [] c = "combined_pt" -> <<LabelEl(TxtLabelCombined)>>
      [] c = "combined_en" -> <<LabelEl(TxtLabelCombinedEn)>>

MerchantPart(c) ==
    CASE c = "absent" -> << >>
      [] c = "blank" -> <<MerchantEl(Absent, Absent, TxtBlank)>>
      [] c = "blank_a_amazon_span" -> <<MerchantEl(Some(TxtBlank), Some(TxtAmazonComBr), << >>)>>
      [] c = "a_amazon" -> <<MerchantEl(Some(TxtAmazonComBr), Absent, << >>)>>
      [] c = "span_amazon_upper" -> <<MerchantEl(Absent, Some(TxtAmazonServicos), << >>)>>
      [] c = "own_amazon" -> <<MerchantEl(Absent, Absent, TxtAmazonLower)>>
      [] c = "a_third" -> <<MerchantEl(Some(TxtLojaXYZ), Absent, << >>)>>
      [] c = "a_third_span_amazon" -> <<MerchantEl(Some(TxtLojaXYZ), Some(TxtAmazonComBr), << >>)>>
      [] c = "span_third" -> <<MerchantEl(Absent, Some(TxtLojaXYZ), << >>)>>
      [] c = "own_third" -> <<MerchantEl(Absent, Absent, TxtLojaXYZ)>>

LinkPart(c) ==
    CASE c = "none" -> << >>
      [] c = "blank" -> <<LinkEl(TxtBlank)>>
      [] c = "seven_words" -> <<LinkEl(TxtSevenWords)>>
      [] c = "third" -> <<LinkEl(TxtOutraLoja)>>
      [] c = "seven_then_third" -> <<LinkEl(TxtSevenWords), LinkEl(TxtOutraLoja)>>
      [] c = "amazon" -> <<LinkEl(TxtAmazonComBr)>>

ShipPart(c) ==
    CASE c = "none" -> << >>
      [] c = "pt" -> <<P(TxtShipsAmazon)>>
      [] c = "en" -> <<P(TxtShipsAmazonEn)>>

\* the parsed page of a product-page probe
ProbePage(d) ==
    LabelPart(d.label) \o MerchantPart(d.merchant) \o LinkPart(d.links)
        \o ShipPart(d.ship) \o (IF d.prime THEN <<PrimeEl>> ELSE << >>)

ExtractProbes ==
    [label : LabelChoices, merchant : MerchantChoices, links : LinkChoices,
     ship : ShipChoices, prime : BOOLEAN]

\* lines 262-270: parse, extract, classify
Extract ==
    /\ px.fn = "extract"
    /\ ~px.done
    /\ LET pair == extract_sold_shipped_from_dp(ProbePage(px.in))
       IN  px' = [px EXCEPT !.done = TRUE,
                            !.out = [vendido |-> pair[1], enviado |-> pair[2],
                                     status |-> Classify(pair[1], pair[2])]]
    /\ UNCHANGED <<page, asins, serve, mainpc, submitted, queue, nthreads, idle, running,
                   tls, made, task, results, collected, hist>>

\* str.upper() of one character
UpperChar(c) ==
    IF c = "ß" THEN <<"S", "S">>
    ELSE IF \E i \in 1..Len(LowerChars) : LowerChars[i] = c
    THEN <<UpperChars[CHOOSE i \in 1..Len(LowerChars) : LowerChars[i] = c]>>
    ELSE <<c>>

\* str.upper()
RECURSIVE Upper(_)
Upper(s) == IF s = << >> THEN << >> ELSE UpperChar(Head(s)) \o Upper(Tail(s))

StatusChoices == {HTTP_OK, 404, 500, HTTP_TOO_MANY, HTTP_UNAVAILABLE}

\* a response probe: no response at all, or a status and a body made of the
\* chosen phrases, in the case chosen, after an optional unrelated text
DetectProbes ==
    {[absent |-> TRUE, status |-> 0, filler |-> FALSE, captcha |-> FALSE,
      automated |-> FALSE, sorry |-> FALSE, robot |-> FALSE, upper |-> FALSE]}
    \cup [absent : {FALSE}, status : StatusChoices, filler : BOOLEAN,
          captcha : BOOLEAN, automated : BOOLEAN, sorry : BOOLEAN, robot : BOOLEAN,
          upper : BOOLEAN]

Phrase(d, on, txt) == IF on THEN <<P(IF d.upper THEN Upper(txt) ELSE txt)>> ELSE << >>

ProbeBody(d) ==
    Phrase(d, d.filler, TxtNotFound) \o Phrase(d, d.captcha, TxtCaptcha)
        \o Phrase(d, d.automated, TxtAutomated) \o Phrase(d, d.sorry, TxtSorry)
        \o Phrase(d, d.robot, TxtRobot)

ProbeResponse(d) == IF d.absent THEN None ELSE Response(d.status, "probe")

\* lines 81-94
DetectSoftBlock ==
    /\ px.fn = "detect"
    /\ ~px.done
    /\ px' = [px EXCEPT !.done = TRUE,
                        !.out = detect_soft_block(ProbeResponse(px.in), ProbeBody(px.in))]
    /\ UNCHANGED <<page, asins, serve, mainpc, submitted, queue, nthreads, idle, running,
                   tls, made, task, results, collected, hist>>

\* str.isalnum()
AlnumChars ==
    Range(UpperChars) \cup Range(LowerChars) \cup Range(Digits) \cup {"0", "ß"}

isalnum(s) == s # << >> /\ \A i \in 1..Len(s) : s[i] \in AlnumChars

is_valid_asin_any_chars(a) == Len(Strip(a)) = 10

\* lines 65-67
is_valid_asin(a) ==
    LET s == Strip(a)
    IN  Len(s) = 10 /\ isalnum(s)

\* line 975: asin_text.replace(",", " ")
ReplaceCommas(s) == [i \in 1..Len(s) |-> IF s[i] = "," THEN " " ELSE s[i]]

\* line 976: re.split(r"\s+", raw_text); a separator at either end leaves an
\* empty string there
RECURSIVE ReSplitFrom(_, _, _, _)
ReSplitFrom(s, cur, acc, inws) ==
    IF s = << >> THEN Append(acc, cur)
    ELSE IF Head(s) \in Whitespace
         THEN IF inws THEN ReSplitFrom(Tail(s), cur, acc, TRUE)
              ELSE ReSplitFrom(Tail(s), << >>, Append(acc, cur), TRUE)
         ELSE ReSplitFrom(Tail(s), Append(cur, Head(s)), acc, FALSE)

re_split(s) == ReSplitFrom(s, << >>, << >>, FALSE)

\* line 977
asins_raw(tokens) ==
    LET kept == SelectSeq(tokens, LAMBDA a : Strip(a) # << >>)
    IN  [i \in 1..Len(kept) |-> Upper(Strip(kept[i]))]

\* lines 975-978: the identifiers handed to the engine
valid_asins(asin_text) ==
    SelectSeq(asins_raw(re_split(ReplaceCommas(asin_text))), is_valid_asin)

TokenNames ==
    {"valid", "lower", "nine", "eleven", "hyphen", "cedilla", "sharp_s_ten",
     "sharp_s_nine", "dot"}

\* the raw tokens a user may type
TokenOf(n) ==
    CASE n = "valid" -> <<"B", "0", "0", "0", "0", "0", "0", "0", "0", "1">>
      [] n = "lower" -> <<"b", "0", "0", "a", "b", "c", "1", "2", "3", "x">>
      [] n = "nine" -> <<"B", "0", "0", "0", "0", "0", "0", "0", "1">>
      [] n = "eleven" -> <<"B", "0", "0", "0", "0", "0", "0", "0", "0", "1", "1">>
      [] n = "hyphen" -> <<"B", "0", "0", "-", "0", "0", "0", "0", "0", "1">>
      [] n = "cedilla" -> <<"B", "0", "0", "0", "0", "0", "0", "0", "0", "ç">>
      [] n = "sharp_s_ten" -> <<"b", "0", "0", "0", "0", "0", "0", "0", "0", "ß">>
      [] n = "sharp_s_nine" -> <<"b", "0", "0", "0", "0", "0", "0", "0", "ß">>
      [] n = "dot" -> <<".">>

SeparatorNames == {"space", "comma", "comma_space", "newline", "tabs"}

SeparatorOf(n) ==
    CASE n = "space" -> <<" ">>
      [] n = "comma" -> <<",">>
      [] n = "comma_space" -> <<",", " ">>
      [] n = "newline" -> <<"\n">>
      [] n = "tabs" -> <<"\t", " ", "\t">>

TokenProbes ==
    [first : TokenNames, sep : SeparatorNames, second : TokenNames, padded : BOOLEAN]

\* the text of the form field
FormText(d) ==
    LET body == TokenOf(d.first) \o SeparatorOf(d.sep) \o TokenOf(d.second)
    IN  IF d.padded THEN <<" ">> \o body \o <<",", "\n">> ELSE body

\* lines 973-980: the tokens of the form field, the identifiers handed to the
\* engine, and whether an error was raised or put on the page
ParseTokens ==
    /\ px.fn = "index"
    /\ ~px.done
    /\ px' = [px EXCEPT !.done = TRUE,
                        !.out = [passed |-> valid_asins(FormText(px.in)),
                                 error |-> FALSE]]
    /\ UNCHANGED <<page, asins, serve, mainpc, submitted, queue, nthreads, idle, running,
                   tls, made, task, results, collected, hist>>

InitHelpers ==
    /\ asins = << >>
    /\ serve = << >>
    /\ mainpc = "returned"
    /\ submitted = 0
    /\ queue = << >>
    /\ nthreads = 0
    /\ idle = 0
    /\ running = [w \in Workers |-> 0]
    /\ tls = [w \in Workers |-> None]
    /\ made = [w \in Workers |-> 0]
    /\ task = << >>
    /\ results = << >>
    /\ collected = {}
    /\ hist = [w \in Workers |-> [used |-> {}, tainted |-> {}]]
    /\ page = None
    /\ \/ \E d \in ExtractProbes :
            px = [fn |-> "extract", in |-> d, done |-> FALSE, out |-> None]
       \/ \E d \in DetectProbes :
            px = [fn |-> "detect", in |-> d, done |-> FALSE, out |-> None]
       \/ \E d \in TokenProbes :
            px = [fn |-> "index", in |-> d, done |-> FALSE, out |-> None]

NextHelpers ==
    \/ Extract
    \/ DetectSoftBlock
    \/ ParseTokens

SpecHelpers == InitHelpers /\ [][NextHelpers]_vars

(***************************************************************************)
(* Properties.                                                              *)
(***************************************************************************)
Statuses == {StatusAmazonFO, StatusLFO, StatusSemOferta, StatusReprocessar}
Distinct(list) == \A i, j \in DOMAIN list : list[i] = list[j] => i = j
MaxRequests == (SAFEGET_RETRIES_PER_CYCLE + 1) * (MAX_BLOCKED_CYCLES + 1)
StatusCodeOf(r) == OutcomeOf(r).status_code
\* safe_get returned a response that is not blocked and whose status is not 200
NonSuccess(t) ==
    /\ task[t].ret[1] # NoResp
    /\ StatusCodeOf(task[t].ret[1]) # HTTP_OK
    /\ ~Blocked[task[t].ret[1], task[t].ret[2]]
\* the task returned from a page that was fetched: 200, not blocked, not empty
Fetched(t) ==
    /\ task[t].pc = "done"
    /\ task[t].ret[1] # NoResp
    /\ StatusCodeOf(task[t].ret[1]) = HTTP_OK
    /\ task[t].ret[2] # "empty"
    /\ ~Blocked[task[t].ret[1], task[t].ret[2]]

C2_ExhaustionNeedsReprocess ==
    \A t \in Tasks :
        (task[t].pc = "done" /\ task[t].fails = MAX_BLOCKED_CYCLES + 1) =>
            /\ task[t].rec = Record(REPROCESSAR_LABEL, REPROCESSAR_LABEL, "REPROCESSAR")
            /\ task[t].rec.status # "Sem Oferta"

\* a call was exhausted by a last cycle that got an empty, unblocked body
C2_Witness ==
    \E t \in Tasks :
        /\ task[t].pc = "done"
        /\ task[t].fails = MAX_BLOCKED_CYCLES + 1
        /\ task[t].ret[1] = "200_empty"

\* C3 as stated: a response that is not blocked and whose status is not 200
\* ends the call in the cycle that received it, with the no-offer record.
C3_NonSuccessAlwaysEnds ==
    \A t \in Tasks :
        NonSuccess(t) =>
            \/ task[t].pc = "decide"
            \/ /\ task[t].pc = "done"
               /\ task[t].rec = Record(SemOferta, SemOferta, "Sem Oferta")

\* C3, amended: a response that is not blocked, whose status is not 200 and
\* whose body is not empty ends the call in the cycle that received it, with
\* the no-offer record: the task takes no further step (no cycle, no renewal,
\* no request).
C3_NonSuccessWithBodyEnds ==
    \A t \in Tasks :
        (NonSuccess(t) /\ task[t].ret[2] # "empty") =>
            \/ task[t].pc = "decide"
            \/ /\ task[t].pc = "done"
               /\ task[t].rec = Record(SemOferta, SemOferta, "Sem Oferta")

\* after a failed first cycle, a 404 with a body ended the call in cycle 1
C3_Witness ==
    \E t \in Tasks :
        /\ task[t].pc = "done"
        /\ task[t].ret = <<"404_no_offer", "no_offer">>
        /\ task[t].cycle = 1
        /\ task[t].reqs > 1

\* C4: when the batch call ends, every submitted task has run its own Recovery
\* Loop to a record and the mapping holds a record for its identifier, also
\* when sibling tasks ended in REPROCESSAR or Sem Oferta.
C4_SiblingsUnaffected ==
    mainpc \in {"returned", "raised"} =>
        \A t \in Tasks :
            /\ task[t].pc = "done"
            /\ task[t].reqs >= 1
            /\ task[t].rec # None
            /\ t \in collected
            /\ asins[t] \in DOMAIN results

\* a batch returned in which one task was exhausted after transport failures
\* and blocks and its sibling, submitted before it, was resolved on its page
C4_Witness ==
    /\ mainpc = "returned"
    /\ \E t, u \in Tasks :
          /\ u < t
          /\ task[t].rec.status = "REPROCESSAR"
          /\ task[t].fails = MAX_BLOCKED_CYCLES + 1
          /\ task[u].rec.status = "LFO"
          /\ results[asins[u]].status = "LFO"

\* no handle is held or used by two threads
Exclusive ==
    /\ \A w, v \in Workers : (w # v /\ tls[w] # None) => tls[w] # tls[v]
    /\ \A t, u \in Tasks :
          (task[t].session # None /\ task[t].by # task[u].by) =>
              task[t].session # task[u].session
    /\ \A t \in Tasks : \A w \in Workers :
          (task[t].session # None /\ task[t].session = tls[w]) => task[t].by = w

\* C5: in every step no handle is held or used by two threads, and a
\* get_session call of one thread leaves every other thread's handle as it was.
C5_SessionsWorkerExclusive ==
    [][/\ Exclusive'
       /\ \A t \in Tasks :
             (task[t].pc = "get_session" /\ task'[t].pc = "safe_get") =>
                 \A v \in Workers \ {task[t].by} : tls'[v] = tls[v]]_vars

\* a thread has renewed its session while another thread, holding its own
\* handle, is inside safe_get
C5_Witness ==
    \E w, v \in Workers :
        /\ w # v
        /\ made[w] >= 2
        /\ tls[w] # None /\ tls[v] # None
        /\ running[v] # 0
        /\ task[running[v]].pc = "safe_get"

\* C6: every record returned has one of the four statuses, and no error leaves
\* safe_get or scrape_one_asin: no task and no batch call ends by raising.
C6_FailuresAreData ==
    /\ mainpc # "raised"
    /\ \A t \in Tasks :
          /\ task[t].pc # "raised"
          /\ task[t].pc = "done" =>
                task[t].rec.status \in {"Amazon FO", "LFO", "Sem Oferta", "REPROCESSAR"}
          /\ task[t].rec # None => task[t].pc = "done"

\* a call returned after the last request of its last cycle raised
C6_Witness ==
    \E t \in Tasks :
        /\ task[t].pc = "done"
        /\ task[t].ret = NoResult
        /\ task[t].rec.status = "REPROCESSAR"

\* C7: no call issues more than (SAFEGET_RETRIES_PER_CYCLE + 1) *
\* (MAX_BLOCKED_CYCLES + 1) = 12 requests.
C7_RequestBudget ==
    /\ MaxRequests = 12
    /\ \A t \in Tasks : task[t].reqs <= MaxRequests

\* a call has issued all twelve requests
C7_Witness == \E t \in Tasks : task[t].pc = "done" /\ task[t].reqs = MaxRequests

\* C8 as stated: each identifier is resolved by one task only, and the record
\* the mapping holds for it is the record of every task run for it.
C8_OneTaskPerIdentifier ==
    /\ \A t, u \in Tasks :
          (asins[t] = asins[u] /\ task[t].reqs > 0 /\ task[u].reqs > 0) => t = u
    /\ mainpc = "returned" => \A t \in Tasks : results[asins[t]] = task[t].rec

\* C9: the status of a record made from a fetched page is decided by its
\* (seller, shipper) pair: Sem Oferta iff both are "Sem Oferta", Amazon FO iff
\* both are operator names, LFO in every other case.
C9_ClassificationPartition ==
    \A t \in Tasks :
        Fetched(t) =>
            LET v == task[t].rec.vendido
                e == task[t].rec.enviado
                s == task[t].rec.status
                none == v = SemOferta /\ e = SemOferta
                operator == is_amazon_name(v) /\ is_amazon_name(e)
            IN  /\ s \in {"Sem Oferta", "Amazon FO", "LFO"}
                /\ s = "Sem Oferta" <=> none
                /\ s = "Amazon FO" <=> operator
                /\ s = "LFO" <=> (~none /\ ~operator)

\* a third-party seller whose offer the operator ships was classified LFO
C9_Witness ==
    \E t \in Tasks :
        /\ Fetched(t)
        /\ ~is_amazon_name(task[t].rec.vendido)
        /\ is_amazon_name(task[t].rec.enviado)
        /\ task[t].rec.status = "LFO"

\* C10 as stated: a record has status REPROCESSAR iff its seller and shipper
\* are both "Reprocessar", status Sem Oferta iff both are "Sem Oferta", and no
\* record holds one sentinel beside the other.
C10_SentinelsNeverConflated ==
    \A t \in Tasks :
        task[t].rec # None =>
            LET v == task[t].rec.vendido
                e == task[t].rec.enviado
                s == task[t].rec.status
            IN  /\ s = "REPROCESSAR" <=> (v = REPROCESSAR_LABEL /\ e = REPROCESSAR_LABEL)
                /\ s = "Sem Oferta" <=> (v = SemOferta /\ e = SemOferta)
                /\ ~(v = REPROCESSAR_LABEL /\ e = SemOferta)
                /\ ~(v = SemOferta /\ e = REPROCESSAR_LABEL)

\* the outcomes whose response is not a soft block
NotBlockedOutcomes == GoodOutcomes \cup ErrorOutcomes
InCall(t) == task[t].pc \in {"safe_get", "decide"} /\ task[t].creq > 0

\* C16: one safe_get call issues at most max_retries + 1 requests, all on the
\* session it was given; it stops at the first attempt whose response is not
\* blocked, returns exactly that response and body, and neither requests nor
\* sleeps after it.
C16_StopsAtFirstUnblocked ==
    \A t \in Tasks :
        InCall(t) =>
            /\ task[t].creq <= SAFEGET_RETRIES_PER_CYCLE + 1
            /\ task[t].reqsess = task[t].session
            /\ task[t].pc = "safe_get" => task[t].lastout \notin NotBlockedOutcomes
            /\ task[t].lastout \in NotBlockedOutcomes =>
                   /\ task[t].pc = "decide"
                   /\ task[t].ret = <<task[t].lastout, OutcomeOf(task[t].lastout).text>>
                   /\ task[t].csleep = task[t].creq - 1

\* a call that returned an unblocked response at its last allowed attempt,
\* after two attempts that were blocked or failed
C16_Witness ==
    \E t \in Tasks :
        /\ task[t].pc = "decide"
        /\ task[t].creq = SAFEGET_RETRIES_PER_CYCLE + 1
        /\ task[t].lastout \in NotBlockedOutcomes
        /\ task[t].sawblocked

\* C17: when every attempt of a safe_get call is blocked or fails, the call
\* returns the outcome of the final attempt: the blocked response and its body
\* if that attempt got one, (None, "") if it raised, even when an earlier
\* attempt of the call returned a blocked response.
C17_ExhaustedReturnsFinalAttempt ==
    \A t \in Tasks :
        (task[t].pc = "decide" /\ task[t].creq > 0
            /\ task[t].lastout \notin NotBlockedOutcomes) =>
            /\ task[t].creq = SAFEGET_RETRIES_PER_CYCLE + 1
            /\ task[t].lastout \in BlockedOutcomes =>
                   task[t].ret = <<task[t].lastout, OutcomeOf(task[t].lastout).text>>
            /\ task[t].lastout \in FailedOutcomes => task[t].ret = <<NoResp, "empty">>

\* a call whose final attempt raised after an earlier attempt was blocked
C17_Witness ==
    \E t \in Tasks :
        /\ task[t].pc = "decide"
        /\ task[t].lastout \in FailedOutcomes
        /\ task[t].sawblocked

\* C18: safe_get sleeps only between attempts: a call that made k attempts
\* slept at most k - 1 times, every sleep being followed by another request of
\* the same call.
C18_SleepsOnlyBetweenAttempts ==
    \A t \in Tasks :
        (task[t].pc = "decide" /\ task[t].creq > 0) =>
            task[t].csleep <= task[t].creq - 1

AllUsed == UNION {hist[w].used : w \in Workers}
SessionStep(t) == task[t].pc = "get_session" /\ task'[t].pc = "safe_get"
RequestStep(t) == task'[t].reqs = task[t].reqs + 1

\* C19: cycle 0 of an identifier uses the worker's current handle and creates
\* one only if the worker has none; every later cycle uses a newly made
\* handle on which no request was ever issued, so consecutive cycles never
\* share a handle; all attempts of one Fetch Cycle use the cycle's handle.
C19_SessionPerCycle ==
    [][\A t \in Tasks :
        /\ SessionStep(t) =>
              LET w == task[t].by
                  h == task'[t].session
              IN  /\ h.kind = "Session"
                  /\ tls'[w] = h
                  /\ IF task[t].cycle = 0 /\ tls[w] # None
                     THEN h = tls[w] /\ made' = made
                     ELSE /\ h \notin AllUsed
                          /\ h # tls[w]
                          /\ h # task[t].session
                          /\ made'[w] = made[w] + 1
        /\ RequestStep(t) =>
              /\ task'[t].reqsess = task[t].session
              /\ task'[t].session = task[t].session
              /\ task'[t].cycle = task[t].cycle
              /\ task[t].creq > 0 => task'[t].reqsess = task[t].reqsess
      ]_vars

\* a third Fetch Cycle on a handle of its own, on a worker that started the
\* identifier with the handle it kept from an earlier identifier
C19_Witness ==
    \E t \in Tasks :
        /\ task[t].pc = "safe_get"
        /\ task[t].cycle = 2
        /\ task[t].creq = 2
        /\ \E u \in Tasks : u # t /\ task[u].by = task[t].by /\ task[u].pc = "done"

\* C20: once a Fetch Cycle on a handle ended blocked or without a response,
\* the worker issues no later request on that handle, neither in a later
\* cycle nor in cycle 0 of the next identifier it picks up.
C20_TaintedNeverReused ==
    \A t \in Tasks :
        InCall(t) => task[t].reqsess \notin hist[task[t].by].tainted

Extracted == px.fn = "extract" /\ px.done

\* C11: a merchant-info block whose resolved name is an operator-name variant
\* gives seller = shipper = "Amazon" and status "Amazon FO", whatever the
\* block's label says and whatever fallback links, shipping phrases or badges
\* the page carries.
C11_OperatorBlockWins ==
    (Extracted /\ px.in.merchant \in OperatorBlocks) =>
        px.out = [vendido |-> <<"A", "m", "a", "z", "o", "n">>,
                  enviado |-> <<"A", "m", "a", "z", "o", "n">>,
                  status |-> "Amazon FO"]

\* an upper-case operator name under a combined label, on a page that also
\* has a third-party seller link, a shipping phrase and a badge
C11_Witness ==
    /\ Extracted
    /\ px.in = [label |-> "combined_pt", merchant |-> "span_amazon_upper",
                links |-> "third", ship |-> "en", prime |-> TRUE]

\* C12: a merchant-info block with a non-operator name under a combined label
\* ("enviado / vendido" or "shipped from and sold by") gives seller = shipper =
\* that name and status "LFO", even when the page has a "shipped by Amazon"
\* phrase or a Prime badge.
C12_CombinedLabelSameParty ==
    (Extracted /\ px.in.merchant \in ThirdPartyBlocks
        /\ px.in.label \in {"combined_pt", "combined_en"}) =>
        px.out = [vendido |-> NameLojaXYZ, enviado |-> NameLojaXYZ, status |-> "LFO"]

\* a third-party name under the combined label with both shipping signals
C12_Witness ==
    /\ Extracted
    /\ px.in.merchant \in ThirdPartyBlocks
    /\ px.in.label = "combined_pt"
    /\ px.in.ship = "pt"
    /\ px.in.prime

\* C13: a page with no merchant-info block name and no accepted fallback
\* seller link gives ("Sem Oferta", "Sem Oferta") with status "Sem Oferta",
\* even when it has a "shipped by Amazon" phrase or a Prime badge.
C13_NoSellerNoGuess ==
    (Extracted /\ px.in.merchant \in NoNameBlocks /\ px.in.links \in NoAcceptedLinks) =>
        px.out = [vendido |-> <<"S", "e", "m", " ", "O", "f", "e", "r", "t", "a">>,
                  enviado |-> <<"S", "e", "m", " ", "O", "f", "e", "r", "t", "a">>,
                  status |-> "Sem Oferta"]

\* a page whose only seller link has seven words, with both shipping signals
C13_Witness ==
    /\ Extracted
    /\ px.in.merchant \in NoNameBlocks
    /\ px.in.links = "seven_words"
    /\ px.in.ship = "pt"
    /\ px.in.prime

Detected == px.fn = "detect" /\ px.done

\* C14: detect_soft_block is true exactly when the response is absent, or its
\* status is 429 or 503, or the body in lower case has the CAPTCHA prompt, or
\* the automated-access notice, or both "sorry" and "robot"; it is false for
\* every other status and body, other non-200 statuses and the empty body
\* included.
C14_BlockDetectorExact ==
    Detected =>
        (px.out <=> \/ px.in.absent
                    \/ px.in.status \in {429, 503}
                    \/ px.in.captcha
                    \/ px.in.automated
                    \/ (px.in.sorry /\ px.in.robot))

\* a 404 with an empty body is not blocked
C14_Witness ==
    /\ Detected
    /\ px.in.status = 404
    /\ ~px.in.filler /\ ~px.in.captcha /\ ~px.in.automated
    /\ ~px.in.sorry /\ ~px.in.robot
    /\ px.out = FALSE

\* a token after trimming and upper-casing
Normal(n) == Upper(Strip(TokenOf(n)))
TenAlnum(s) == Len(s) = 10 /\ \A i \in 1..Len(s) : s[i] \in AlnumChars

\* C15: a raw token, trimmed and upper-cased, is handed to the engine iff it
\* has exactly 10 characters, all alphanumeric; every other token is dropped
\* and no error is raised or reported.
C15_TokenFilter ==
    (px.fn = "index" /\ px.done) =>
        /\ px.out.passed =
               SelectSeq(<<Normal(px.in.first), Normal(px.in.second)>>, TenAlnum)
        /\ ~px.out.error

\* a token with a hyphen is dropped and the lower-case one after it is kept
C15_Witness ==
    /\ px.fn = "index" /\ px.done
    /\ px.in.first = "hyphen"
    /\ px.in.second = "lower"
    /\ Len(px.out.passed) = 1

\* C21: a record with status "REPROCESSAR" is returned only in cycle index
\* MAX_BLOCKED_CYCLES, after exactly MAX_BLOCKED_CYCLES + 1 Fetch Cycles of
\* the identifier, each ended with no response, an empty body or a blocked
\* response, and after MAX_BLOCKED_CYCLES session renewals.
C21_ReprocessOnlyAfterBudget ==
    \A t \in Tasks :
        (task[t].pc = "done" /\ task[t].rec.status = "REPROCESSAR") =>
            /\ task[t].cycle = MAX_BLOCKED_CYCLES
            /\ task[t].ncycles = MAX_BLOCKED_CYCLES + 1
            /\ task[t].fails = MAX_BLOCKED_CYCLES + 1
            /\ task[t].renewals = MAX_BLOCKED_CYCLES

\* an identifier given up after four cycles that used four handles
C21_Witness ==
    \E t \in Tasks :
        /\ task[t].pc = "done"
        /\ task[t].rec.status = "REPROCESSAR"
        /\ task[t].renewals = MAX_BLOCKED_CYCLES
        /\ made[task[t].by] >= MAX_BLOCKED_CYCLES + 1

InProgress(t) == task[t].pc \in {"get_session", "safe_get", "decide"}

\* C22: at every moment of a batch run at most MAX_WORKERS Recovery Loops are
\* in progress, each worker is executing at most one identifier, and a
\* worker has started another identifier only after the Recovery Loop of its
\* previous one reached a terminal state.
C22_BoundedPool ==
    /\ Cardinality({t \in Tasks : InProgress(t)}) <= 6
    /\ \A t \in Tasks :
          InProgress(t) =>
              /\ task[t].by \in 1..6
              /\ running[task[t].by] = t
    /\ \A t, u \in Tasks :
          (t # u /\ InProgress(t) /\ InProgress(u)) => task[t].by # task[u].by
    /\ \A w \in Workers :
          running[w] # 0 =>
              \A u \in Tasks :
                  (u # running[w] /\ task[u].by = w) => task[u].pc \in {"done", "raised"}

\* six Recovery Loops are in progress, one of them on a worker that has
\* finished another identifier before
C22_Witness ==
    /\ Cardinality({t \in Tasks : InProgress(t)}) = 6
    /\ \E t, u \in Tasks :
          /\ t # u
          /\ task[t].by = task[u].by
          /\ task[t].pc = "done"
          /\ InProgress(u)

\* C23: under fair scheduling, whatever the requests return, every submitted
\* identifier's Recovery Loop reaches a terminal state and
\* get_offer_info_scrape_parallel returns, also with more identifiers than
\* workers.
C23_BatchTerminates ==
    <>(mainpc = "returned" /\ \A t \in Tasks : task[t].pc = "done")

\* a batch of more identifiers than workers has returned
C23_Witness ==
    /\ mainpc = "returned"
    /\ Len(asins) > MAX_WORKERS
    /\ \A t \in Tasks : task[t].pc = "done"

\* the probes whose seller is a third party and whose shipper the merchant
\* block leaves open: named by the block under a label that is not combined,
\* or named by a fallback link of a page without a block name
SellerFromBlock == px.in.merchant \in ThirdPartyBlocks /\ px.in.label \in {"none", "sold"}
SellerFromLink == px.in.merchant \in NoNameBlocks /\ px.in.links \in {"third", "seven_then_third"}

\* C24: when a non-operator seller is resolved and the shipper is still
\* open, the shipper is "Amazon" iff the page text has a "shipped by Amazon"
\* phrase or, failing that, a Prime badge is present; otherwise the shipper
\* is the seller.
C24_ShipperFromSignals ==
    (Extracted /\ (SellerFromBlock \/ SellerFromLink)) =>
        LET seller == IF SellerFromBlock
                      THEN NameLojaXYZ
                      ELSE <<"O", "u", "t", "r", "a", " ", "L", "o", "j", "a">>
        IN  /\ px.out.vendido = seller
            /\ px.out.enviado = IF px.in.ship # "none" \/ px.in.prime
                                THEN <<"A", "m", "a", "z", "o", "n">>
                                ELSE seller

\* a seller taken from a fallback link on a page without any shipping signal
C24_Witness ==
    /\ Extracted
    /\ SellerFromLink
    /\ px.in.ship = "none"
    /\ ~px.in.prime
    /\ px.out.enviado = px.out.vendido

\* C25: every pair extract_sold_shipped_from_dp returns has the seller
\* "Sem Oferta" iff the shipper is "Sem Oferta", and whenever the seller
\* matches an operator-name variant the shipper does too.
C25_PairConsistent ==
    Extracted =>
        /\ (px.out.vendido = <<"S", "e", "m", " ", "O", "f", "e", "r", "t", "a">>)
               <=> (px.out.enviado = <<"S", "e", "m", " ", "O", "f", "e", "r", "t", "a">>)
        /\ is_amazon_name(px.out.vendido) => is_amazon_name(px.out.enviado)

\* a page without any seller that carries both shipping signals
C25_Witness ==
    /\ Extracted
    /\ px.in.merchant = "blank"
    /\ px.in.links = "none"
    /\ px.in.ship = "en"
    /\ px.in.prime
    /\ px.out.vendido = px.out.enviado

\* C26: the summary index computes is a partition of the rows shown: one row
\* per submitted valid token, every row's status one of "LFO", "Amazon FO",
\* "Sem Oferta", "Reprocessar", the four counts adding up to the total,
\* nooffer_count counting no row of an identifier given up for reprocessing
\* and reproc_count counting no row without offer.
C26_SummaryPartition ==
    mainpc = "rendered" =>
        LET rows == page.rows
            s == page.summary
            EngineStatus(i) == results[asins[i]].status
        IN  /\ Len(rows) = Len(asins)
            /\ \A i \in 1..Len(rows) :
                  /\ rows[i].asin = asins[i]
                  /\ rows[i].status \in {"LFO", "Amazon FO", "Sem Oferta", "Reprocessar"}
            /\ s.total = Len(asins)
            /\ s.lfo_count + s.amazonfo_count + s.nooffer_count + s.reproc_count = s.total
            /\ s.nooffer_count =
                  Cardinality({i \in 1..Len(asins) : EngineStatus(i) = "Sem Oferta"})
            /\ s.reproc_count =
                  Cardinality({i \in 1..Len(asins) : EngineStatus(i) = "REPROCESSAR"})
            /\ s.lfo_count = Cardinality({i \in 1..Len(asins) : EngineStatus(i) = "LFO"})

\* a page with one row without offer and one row to reprocess
C26_Witness ==
    /\ mainpc = "rendered"
    /\ page.summary.nooffer_count = 1
    /\ page.summary.reproc_count = 1
    /\ page.summary.total = 2

====
